---- MODULE Spec2Model ----
(***************************************************************************)
(* project2txt (src/main.py): walk a project tree, select files by         *)
(* include/exclude regular expressions, strip single-line comments and     *)
(* blank lines, and append each cleaned file, preceded by a delimiter      *)
(* naming it, to one output artifact.                                      *)
(*                                                                         *)
(* Text is a sequence of one-character strings.  The only line boundary in *)
(* the model's alphabet is "\n" and os.linesep is "\n" (POSIX); the other   *)
(* boundaries of str.splitlines (form feed, vertical tab, ...) are not in  *)
(* the alphabet.  Three specifications: SpecClean applies the cleaning     *)
(* step to drawn contents and markers, SpecMatch applies                   *)
(* should_process_file to drawn paths and configurations, Spec is          *)
(* process_project run up to MaxRuns times over a drawn tree.              *)
(***************************************************************************)
EXTENDS Integers, Sequences, FiniteSets, TLC

(* ------------------------------------------------------------------ text *)

\* Longest file content drawn for the cleaning step (SpecClean).
MaxLen == 3
\* Number of successive process_project runs explored (Spec).
MaxRuns == 2

Alphabet == {"a", "#", "/", " ", "\n"}

RECURSIVE Texts(_)
Texts(n) ==
  IF n = 0 THEN {<<>>}
  ELSE LET shorter == Texts(n - 1)
       IN shorter \cup {Append(t, ch) : t \in {u \in shorter : Len(u) = n - 1}, ch \in Alphabet}

(* ------------------------------------------------- re: compile and match *)

\* One compiled item: a literal character, "DOT" (any character but "\n")
\* or "EOL" (the zero-width "$"), optionally repeated by "*".
Item(c, star) == [c |-> c, star |-> star]

BadPattern == [ok |-> FALSE, items |-> <<>>]

\* re.compile on the subset of the syntax the model's patterns use:
\* "\x" is the literal x, "." any character but newline, "$" end of string,
\* "*" repeats the preceding item and raises re.error ("nothing to repeat",
\* "multiple repeat") when there is none, it is "$", or it is repeated already.
RECURSIVE re_compile_from(_, _, _)
re_compile_from(pattern, i, acc) ==
  IF i > Len(pattern) THEN [ok |-> TRUE, items |-> acc]
  ELSE LET ch == pattern[i] IN
    CASE ch = "\\" ->
           IF i = Len(pattern) THEN BadPattern
           ELSE re_compile_from(pattern, i + 2, Append(acc, Item(pattern[i + 1], FALSE)))
      [] ch = "." -> re_compile_from(pattern, i + 1, Append(acc, Item("DOT", FALSE)))
      [] ch = "$" -> re_compile_from(pattern, i + 1, Append(acc, Item("EOL", FALSE)))
      [] ch = "*" ->
           IF acc = <<>> THEN BadPattern
           ELSE LET last == acc[Len(acc)] IN
                IF last.c = "EOL" \/ last.star THEN BadPattern
                ELSE re_compile_from(pattern, i + 1,
                                     [acc EXCEPT ![Len(acc)] = Item(last.c, TRUE)])
      [] OTHER -> re_compile_from(pattern, i + 1, Append(acc, Item(ch, FALSE)))

re_compile(pattern) == re_compile_from(pattern, 1, <<>>)

Accepts(it, ch) == IF it.c = "DOT" THEN ch # "\n" ELSE ch = it.c

\* "$" without re.MULTILINE: at the end of the string, or just before a
\* newline that is the string's last character.
AtEnd(s, pos) == pos = Len(s) + 1 \/ (pos = Len(s) /\ s[pos] = "\n")

\* Whether items[k..] match s at position pos (a match may end anywhere).
RECURSIVE MatchHere(_, _, _, _)
MatchHere(items, k, s, pos) ==
  IF k > Len(items) THEN TRUE
  ELSE LET it == items[k] IN
    IF it.c = "EOL" THEN AtEnd(s, pos) /\ MatchHere(items, k + 1, s, pos)
    ELSE IF it.star
      THEN \/ MatchHere(items, k + 1, s, pos)
           \/ (pos <= Len(s) /\ Accepts(it, s[pos]) /\ MatchHere(items, k, s, pos + 1))
      ELSE pos <= Len(s) /\ Accepts(it, s[pos]) /\ MatchHere(items, k + 1, s, pos + 1)

\* re.search(pattern, s) is not None, for a pattern that compiles.
re_search(pattern, s) ==
  LET r == re_compile(pattern)
  IN r.ok /\ \E pos \in 1..(Len(s) + 1) : MatchHere(r.items, 1, s, pos)

\* First index >= pos holding "\n", or Len(s) + 1.
RECURSIVE LineEnd(_, _)
LineEnd(s, pos) ==
  IF pos > Len(s) \/ s[pos] = "\n" THEN pos ELSE LineEnd(s, pos + 1)

\* re.sub(f"{comment_pattern}.*", "", s) for compiled marker items: scanning
\* left to right, a match at pos runs (greedy ".*") to the end of the line
\* and is deleted; an empty match deletes nothing.
RECURSIVE re_sub_from(_, _, _, _)
re_sub_from(items, s, pos, acc) ==
  IF pos > Len(s) THEN acc
  ELSE IF MatchHere(items, 1, s, pos) /\ LineEnd(s, pos) > pos
    THEN re_sub_from(items, s, LineEnd(s, pos), acc)
    ELSE re_sub_from(items, s, pos + 1, Append(acc, s[pos]))

(* ------------------------------------------------------- str operations *)

\* str.splitlines()
RECURSIVE splitlines_from(_, _, _, _)
splitlines_from(s, pos, cur, acc) ==
  IF pos > Len(s) THEN (IF cur = <<>> THEN acc ELSE Append(acc, cur))
  ELSE IF s[pos] = "\n" THEN splitlines_from(s, pos + 1, <<>>, Append(acc, cur))
  ELSE splitlines_from(s, pos + 1, Append(cur, s[pos]), acc)

splitlines(s) == splitlines_from(s, 1, <<>>, <<>>)

\* bool(s.strip()): the line holds a character that is not whitespace.
strip_nonempty(s) == \E k \in 1..Len(s) : s[k] \notin {" ", "\n"}

\* os.linesep.join([s for s in lines if s.strip()])
RECURSIVE join_nonblank(_, _, _)
join_nonblank(lines, k, acc) ==
  IF k > Len(lines) THEN acc
  ELSE IF strip_nonempty(lines[k])
    THEN join_nonblank(lines, k + 1,
                       (IF acc = <<>> THEN <<>> ELSE Append(acc, "\n")) \o lines[k])
    ELSE join_nonblank(lines, k + 1, acc)

\* The empty marker stands for "no entry for the extension" (None) and for
\* "", both falsy in `if comment_pattern:`.
NoMarker == <<>>

\* process_file's cleaning step.  ok = FALSE: re.sub raised re.error.
\* (A line kept by the filter is never empty, so the accumulator of
\* join_nonblank is empty only before the first kept line.)
clean_content(file_content, comment_pattern) ==
  IF comment_pattern # NoMarker
  THEN LET r == re_compile(comment_pattern) IN
       IF ~r.ok THEN [ok |-> FALSE, text |-> <<>>]
       ELSE [ok |-> TRUE,
             text |-> join_nonblank(splitlines(re_sub_from(r.items, file_content, 1, <<>>)),
                                    1, <<>>)]
  ELSE [ok |-> TRUE, text |-> join_nonblank(splitlines(file_content), 1, <<>>)]

(* ------------------------------------------------------------ paths *)

\* File paths and path patterns, one character per element.
A_PY == <<"p", "/", "a", ".", "p", "y">>
D_C == <<"p", "/", "d", ".", "c">>
B_PY == <<"p", "/", "v", "e", "n", "v", "/", "b", ".", "p", "y">>
C_MD == <<"p", "/", "c", ".", "m", "d">>
README == <<"p", "/", "R", "E", "A", "D", "M", "E">>

\* DEFAULT_CONFIG's patterns the model draws from, and one a user's
\* configuration file may add.
PyPat == <<"\\", ".", "p", "y", "$">>
CPat == <<"\\", ".", "c", "$">>
MdPat == <<"\\", ".", "m", "d", "$">>
VenvPat == <<"v", "e", "n", "v">>
TxtPat == <<"\\", ".", "t", "x", "t", "$">>

PY == <<".", "p", "y">>
TXT == <<".", "t", "x", "t">>

\* os.path.join(a, b) for a relative b
path_join(a, b) == a \o <<"/">> \o b

\* process_project's output_file_path for the project "p":
\* base_output_dir/p_combined_output/p.txt
CombinedDir == <<"p", "_", "c", "o", "m", "b", "i", "n", "e", "d", "_", "o", "u", "t", "p", "u", "t">>
output_file_path(base_output_dir) ==
  path_join(path_join(base_output_dir, CombinedDir), <<"p", ".", "t", "x", "t">>)

\* The project root, and two places for the output: under it, outside it.
ProjectPath == <<"p">>
OutsideDir == <<"o", "u", "t">>
BaseDirs == {ProjectPath, OutsideDir}

(* --------------------------------------------------- should_process_file *)

\* any(re.search(pattern, file_path) for pattern in patterns), as the loops
\* of should_process_file run it: first match wins.
RECURSIVE any_match(_, _, _)
any_match(patterns, k, file_path) ==
  IF k > Len(patterns) THEN FALSE
  ELSE IF re_search(patterns[k], file_path) THEN TRUE
  ELSE any_match(patterns, k + 1, file_path)

\* Mutant: inclusion is tested before exclusion.
should_process_file_include_first(file_path, config) ==
  IF any_match(config.include_patterns, 1, file_path) THEN TRUE
  ELSE FALSE

\* Mutant: an empty include list accepts every path that is not excluded.
should_process_file_empty_accepts(file_path, config) ==
  IF any_match(config.exclude_patterns, 1, file_path) THEN FALSE
  ELSE IF config.include_patterns = <<>> THEN TRUE
  ELSE any_match(config.include_patterns, 1, file_path)

should_process_file(file_path, config) ==
  IF any_match(config.exclude_patterns, 1, file_path) THEN FALSE
  ELSE IF any_match(config.include_patterns, 1, file_path) THEN TRUE
  ELSE FALSE

IncludeChoices == { <<>>, <<PyPat, CPat>>, <<PyPat, TxtPat>> }
ExcludeChoices == { <<>>, <<VenvPat, MdPat>>, <<CPat>> }
\* comment_patterns: DEFAULT_CONFIG's ".py": "#", and user configurations.
MarkerChoices == { PY :> <<"#">>, PY :> <<"*">>, (PY :> <<"#">>) @@ (TXT :> <<"#">>) }

Configs ==
  [include_patterns : IncludeChoices,
   exclude_patterns : ExcludeChoices,
   comment_patterns : MarkerChoices]

(* ------------------------------------------------------------- state *)

VARIABLES
  \* the cleaning step alone
  file_content, comment_pattern, once, twice, stage,
  \* should_process_file alone
  file_path, match_config, verdict,
  \* process_project: its arguments, the tree it walks, the artifact
  config, base_output_dir, files, out, pc, idx, run,
  \* history of the current run, and the previous run's result
  attempts, appended, faults, badre, outRead, prevOut, prevFaults

cvars == <<file_content, comment_pattern, once, twice, stage>>
mvars == <<file_path, match_config, verdict>>
pvars == <<config, base_output_dir, files, out, pc, idx, run,
           attempts, appended, faults, badre, outRead, prevOut, prevFaults>>
vars == <<cvars, mvars, pvars>>

NotRun == [ok |-> FALSE, text |-> <<>>]

CleanIdle ==
  /\ file_content = <<>>
  /\ comment_pattern = NoMarker
  /\ once = NotRun
  /\ twice = NotRun
  /\ stage = "off"

MatchIdle ==
  /\ file_path = <<>>
  /\ match_config \in {[include_patterns |-> <<>>, exclude_patterns |-> <<>>,
                        comment_patterns |-> PY :> <<"#">>]}
  /\ verdict = "off"

ProcessIdle ==
  /\ config \in {[include_patterns |-> <<>>, exclude_patterns |-> <<>>,
                   comment_patterns |-> PY :> <<"#">>]}
  /\ base_output_dir = <<>>
  /\ files = <<>>
  /\ out = <<>>
  /\ pc = "off"
  /\ idx = 0
  /\ run = 0
  /\ attempts = <<>>
  /\ appended = {}
  /\ faults = {}
  /\ badre = {}
  /\ outRead = FALSE
  /\ prevOut = <<>>
  /\ prevFaults = {}

(* ------------------------------------------- the cleaning step (SpecClean) *)

Markers == { NoMarker, <<"#">>, <<"/", "/">>, <<"/", "*">>, <<"*">>, <<".">>, <<"a", "$">> }

InitClean ==
  /\ file_content \in Texts(MaxLen)
  /\ comment_pattern \in Markers
  /\ once = NotRun
  /\ twice = NotRun
  /\ stage = "input"
  /\ MatchIdle
  /\ ProcessIdle

CleanOnce ==
  /\ stage = "input"
  /\ once' = clean_content(file_content, comment_pattern)
  /\ stage' = "once"
  /\ UNCHANGED <<file_content, comment_pattern, twice, mvars, pvars>>

CleanTwice ==
  /\ stage = "once"
  /\ once.ok
  /\ twice' = clean_content(once.text, comment_pattern)
  /\ stage' = "twice"
  /\ UNCHANGED <<file_content, comment_pattern, once, mvars, pvars>>

NextClean == CleanOnce \/ CleanTwice

SpecClean == InitClean /\ [][NextClean]_vars

(* ------------------------------------- should_process_file (SpecMatch) *)

MatchPaths ==
  { A_PY, D_C, B_PY, C_MD, README,
    output_file_path(ProjectPath), output_file_path(OutsideDir) }

InitMatch ==
  /\ file_path \in MatchPaths
  /\ match_config \in Configs
  /\ verdict = "pending"
  /\ CleanIdle
  /\ ProcessIdle

Decide ==
  /\ verdict = "pending"
  /\ verdict' = IF should_process_file(file_path, match_config) THEN "True" ELSE "False"
  /\ UNCHANGED <<file_path, match_config, cvars, pvars>>

NextMatch == Decide

SpecMatch == InitMatch /\ [][NextMatch]_vars

Excluded == \E k \in DOMAIN match_config.exclude_patterns :
              re_search(match_config.exclude_patterns[k], file_path)
Included == \E k \in DOMAIN match_config.include_patterns :
              re_search(match_config.include_patterns[k], file_path)

\* C1: a path that matches an exclude pattern is rejected, also when it
\* matches an include pattern: exclusion takes precedence over inclusion.
C1_ExcludeWins == (verdict \in {"True", "False"} /\ Excluded) => verdict = "False"

\* A path matching both an exclude and an include pattern has been decided.
C1_Witness == verdict = "False" /\ Excluded /\ Included

\* C2: a path that matches no exclude pattern is accepted if and only if
\* it matches an include pattern; an empty include list rejects every path.
C2_IncludeDecides ==
  (verdict \in {"True", "False"} /\ ~Excluded) => (verdict = "True" <=> Included)

\* A path that nothing excludes has been rejected under an empty include list.
C2_Witness ==
  /\ verdict = "False"
  /\ ~Excluded
  /\ match_config.include_patterns = <<>>

(* ------------------------------------------------ process_project (Spec) *)

\* os.path.splitext(file_path)[1]: from the last dot of the last path
\* segment, unless only dots precede it in that segment.
last_index(s, ch) ==
  LET hits == {k \in 1..Len(s) : s[k] = ch}
  IN IF hits = {} THEN 0 ELSE CHOOSE k \in hits : \A j \in hits : j <= k

splitext_ext(path) ==
  LET sep == last_index(path, "/")
      dot == last_index(path, ".")
  IN IF dot > sep /\ (\E k \in (sep + 1)..(dot - 1) : path[k] # ".")
     THEN SubSeq(path, dot, Len(path))
     ELSE <<>>

\* config["comment_patterns"].get(file_extension)
marker_for(path, cfg) ==
  IF splitext_ext(path) \in DOMAIN cfg.comment_patterns
  THEN cfg.comment_patterns[splitext_ext(path)]
  ELSE NoMarker

\* The header line of DEFAULT_CONFIG's delimiter "\n<<<FILENAME:{file_path}>>>\n"
\* after .format(file_path=...), kept as one element of the text.  It holds
\* neither a newline nor whitespace, and no literal of a marker the
\* configurations of this specification use.
header(path) ==
  CASE path = A_PY -> "<<<FILENAME:p/a.py>>>"
    [] path = D_C -> "<<<FILENAME:p/d.c>>>"
    [] path = B_PY -> "<<<FILENAME:p/venv/b.py>>>"
    [] path = output_file_path(ProjectPath) -> "<<<FILENAME:p/p_combined_output/p.txt>>>"
    [] OTHER -> "<<<FILENAME:?>>>"

Headers == {header(p) : p \in {A_PY, D_C, B_PY, output_file_path(ProjectPath)}}

delimiter(path) == <<"\n", header(path), "\n">>

\* Mutant: the block is written at the front of the artifact.
write_block_front(artifact, block) == block \o artifact

\* open(output_file, 'a') ... out_file.write(block)
write_block(artifact, block) == artifact \o block

\* Mutant: the artifact is opened for appending, its content kept.
truncate_kept(artifact) == artifact

\* open(output_file_path, 'w').close()
truncate(artifact) == <<>>

\* Mutant: the exception leaves process_file.
on_exception_reraise == "raised"

\* except Exception as e: print(...) - process_file returns normally and the
\* walk goes on.
on_exception == "walking"

\* What os.walk yields for the tree p/{a.py, d.c, venv/b.py}, with the
\* artifact among the files when the output directory lies under p.
Walks(base) ==
  IF base = ProjectPath
  THEN { <<A_PY, D_C, B_PY, output_file_path(base)>>,
         <<D_C, A_PY, output_file_path(base), B_PY>> }
  ELSE { <<A_PY, D_C, B_PY>>, <<D_C, A_PY, B_PY>> }

ContentsA == { <<"a", " ", "#", "a", "\n", "\n", "a", "\n">>, <<"#", "a">> }
ContentD == <<"/", "a", "\n", " ", "\n", "#", "a">>
ContentB == <<"a">>

\* What the artifact holds before the first run.
PriorArtifacts == { <<>>, <<"\n", header(A_PY), "\n", "a", "\n">> }

file_entry(path, contentA, readA, readD) ==
  [path |-> path,
   content |-> IF path = A_PY THEN contentA ELSE IF path = D_C THEN ContentD
               ELSE IF path = B_PY THEN ContentB ELSE <<>>,
   readable |-> IF path = A_PY THEN readA ELSE IF path = D_C THEN readD ELSE TRUE]

Init ==
  /\ config \in Configs
  /\ base_output_dir \in BaseDirs
  /\ \E w \in Walks(base_output_dir), ca \in ContentsA, ra \in BOOLEAN, rd \in BOOLEAN :
       files = [k \in DOMAIN w |-> file_entry(w[k], ca, ra, rd)]
  /\ out \in PriorArtifacts
  /\ pc = "idle"
  /\ idx = 0
  /\ run = 0
  /\ attempts = [k \in DOMAIN files |-> 0]
  /\ appended = {}
  /\ faults = {}
  /\ badre = {}
  /\ outRead = FALSE
  /\ prevOut = <<>>
  /\ prevFaults = {}
  /\ CleanIdle
  /\ MatchIdle

is_artifact(i) == files[i].path = output_file_path(base_output_dir)
eligible(i) == should_process_file(files[i].path, config)
read_ok(i) == files[i].readable
\* file.read(): the artifact, when it is the file walked, holds what the run
\* has written so far.
content_read(i, artifact) == IF is_artifact(i) THEN artifact ELSE files[i].content
cleaned(i, artifact) == clean_content(content_read(i, artifact), marker_for(files[i].path, config))
block(i, artifact) == delimiter(files[i].path) \o cleaned(i, artifact).text \o <<"\n">>

\* process_project, lines 112-117: the output directory and an empty artifact.
StartRun ==
  /\ pc \in {"idle", "done"}
  /\ run < MaxRuns
  /\ out' = truncate(out)
  /\ pc' = "walking"
  /\ idx' = 1
  /\ run' = run + 1
  /\ attempts' = [k \in DOMAIN files |-> 0]
  /\ appended' = {}
  /\ faults' = {}
  /\ badre' = {}
  /\ outRead' = FALSE
  /\ prevOut' = out
  /\ prevFaults' = faults
  /\ UNCHANGED <<config, base_output_dir, files, cvars, mvars>>

\* os.makedirs or open(output_file_path, 'w') raises: nothing catches it.
StartFails ==
  /\ pc \in {"idle", "done"}
  /\ run < MaxRuns
  /\ pc' = "raised"
  /\ UNCHANGED <<config, base_output_dir, files, out, idx, run, attempts, appended,
                 faults, badre, outRead, prevOut, prevFaults, cvars, mvars>>

AtFile == pc = "walking" /\ idx \in DOMAIN files

Attempted ==
  /\ idx' = idx + 1
  /\ attempts' = [attempts EXCEPT ![idx] = @ + 1]
  /\ UNCHANGED <<config, base_output_dir, files, run, prevOut, prevFaults, cvars, mvars>>

\* process_file: should_process_file is false, "Skipping".
Skip ==
  /\ AtFile
  /\ ~eligible(idx)
  /\ Attempted
  /\ UNCHANGED <<out, pc, appended, faults, badre, outRead>>

\* process_file: open(file_path, 'r') or file.read() raises.
ReadFails ==
  /\ AtFile
  /\ eligible(idx)
  /\ ~read_ok(idx)
  /\ pc' = on_exception
  /\ Attempted
  /\ UNCHANGED <<out, appended, faults, badre, outRead>>

\* process_file: re.sub raises re.error on the comment pattern.
PatternFails ==
  /\ AtFile
  /\ eligible(idx)
  /\ read_ok(idx)
  /\ ~cleaned(idx, out).ok
  /\ pc' = on_exception
  /\ badre' = badre \cup {idx}
  /\ outRead' = (outRead \/ is_artifact(idx))
  /\ Attempted
  /\ UNCHANGED <<out, appended, faults>>

\* process_file: open(output_file, 'a') raises.
WriteFails ==
  /\ AtFile
  /\ eligible(idx)
  /\ read_ok(idx)
  /\ cleaned(idx, out).ok
  /\ pc' = on_exception
  /\ faults' = faults \cup {idx}
  /\ outRead' = (outRead \/ is_artifact(idx))
  /\ Attempted
  /\ UNCHANGED <<out, appended, badre>>

\* process_file: the block is appended.
AppendBlock ==
  /\ AtFile
  /\ eligible(idx)
  /\ read_ok(idx)
  /\ cleaned(idx, out).ok
  /\ out' = write_block(out, block(idx, out))
  /\ appended' = appended \cup {idx}
  /\ outRead' = (outRead \/ is_artifact(idx))
  /\ Attempted
  /\ UNCHANGED <<pc, faults, badre>>

\* process_project: the walk is exhausted, "Project processing complete".
Finish ==
  /\ pc = "walking"
  /\ idx > Len(files)
  /\ pc' = "done"
  /\ UNCHANGED <<config, base_output_dir, files, out, idx, run, attempts, appended,
                 faults, badre, outRead, prevOut, prevFaults, cvars, mvars>>

Next == StartRun \/ StartFails \/ Skip \/ ReadFails \/ PatternFails \/ WriteFails
          \/ AppendBlock \/ Finish

Spec == Init /\ [][Next]_vars

(* ---------------------------------------------- process_project: claims *)

Files == DOMAIN files
Running == pc \in {"walking", "done"}

\* Number of delimiter header lines the artifact holds.
NumBlocks(artifact) == Cardinality({k \in DOMAIN artifact : artifact[k] \in Headers})

\* The artifact holds a block headed by file i's delimiter.
HasBlock(i) == \E k \in DOMAIN out : out[k] = header(files[i].path)

\* C3: at completion the artifact holds as many delimiter blocks as there are
\* enumerated files that passed should_process_file and were read.
C3_BlockCount ==
  pc = "done" => NumBlocks(out) = Cardinality({i \in Files : eligible(i) /\ read_ok(i)})

\* C4: an error opening or appending to the artifact ends the run: once an
\* append has been refused the exception is on its way to the caller; the
\* walk neither goes on to the next file nor reports completion.
C4_WriteErrorFatal == faults # {} => pc = "raised"

\* C5: a read failure of an eligible file is recovered locally.  The step
\* that meets it leaves the artifact as it is and hands over to the next file;
\* from there the walk only moves on, one file at a step, or completes, and
\* no exception leaves it; the unreadable file never has a block; and in a
\* completed run whose only failures are read failures, an eligible file
\* has its block exactly when it is readable.
ReadFailureAtHand == AtFile /\ eligible(idx) /\ ~read_ok(idx)
C6_RerunIdentical ==
  (pc = "done" /\ run >= 2 /\ faults = prevFaults) => out = prevOut

\* A second run has completed and left blocks in the artifact.
C6_Witness == pc = "done" /\ run = 2 /\ faults = prevFaults /\ NumBlocks(out) >= 2

\* The artifact the appends of the files in `done` produce, made in
\* enumeration order, each block being the file's delimiter, its cleaned
\* content as read, and a newline.
RECURSIVE blocks_in_order(_, _, _)
blocks_in_order(i, done, acc) ==
  IF i > Len(files) THEN acc
  ELSE IF i \in done
    THEN blocks_in_order(i + 1, done,
           acc \o delimiter(files[i].path)
               \o clean_content(content_read(i, acc), marker_for(files[i].path, config)).text
               \o <<"\n">>)
    ELSE blocks_in_order(i + 1, done, acc)

\* C9: in a run every enumerated file is attempted once, in enumeration
\* order, and the artifact is the blocks of the files that produced one, in
\* enumeration order.
C9_OneAtATimeInOrder ==
  Running =>
    /\ \A i \in Files : attempts[i] = (IF i < idx THEN 1 ELSE 0)
    /\ pc = "done" => idx = Len(files) + 1
    /\ appended \subseteq 1..(idx - 1)
    /\ out = blocks_in_order(1, appended, <<>>)

\* A completed run in which two files produced a block.
C9_Witness == pc = "done" /\ Cardinality(appended) >= 2 /\ NumBlocks(out) >= 2

\* C10: no step of a run opens the artifact for reading.
C10_ArtifactNeverRead == ~outRead

(* ------------------------------------------ the cleaning step: claims *)

\* First index at which marker occurs in line as a literal substring, or 0.
first_literal(line, marker) ==
  LET hits == {k \in 1..(Len(line) - Len(marker) + 1) :
                 SubSeq(line, k, k + Len(marker) - 1) = marker}
  IN IF hits = {} THEN 0 ELSE CHOOSE k \in hits : \A j \in hits : k <= j

\* The cleaning rule as the specification words it: on every line the first
\* literal occurrence of the marker and everything after it is deleted, other
\* lines are unchanged; blank lines are dropped and the order is kept.
literal_strip(line, marker) ==
  IF marker = NoMarker \/ first_literal(line, marker) = 0 THEN line
  ELSE SubSeq(line, 1, first_literal(line, marker) - 1)

literal_clean(content, marker) ==
  LET lines == splitlines(content)
  IN join_nonblank([k \in DOMAIN lines |-> literal_strip(lines[k], marker)], 1, <<>>)

\* C7: cleaning is idempotent: cleaning the cleaned text changes nothing.
C7_Idempotent == stage = "twice" => twice = once

\* C8: the marker is a literal prefix: the cleaned text is the literal rule's
\* result for every content and every marker string.
C8_LiteralMarker ==
  stage \in {"once", "twice"} => once = [ok |-> TRUE, text |-> literal_clean(file_content, comment_pattern)]

====
